---- MODULE Spec2Model ----
(***************************************************************************)
(* QuickNotes (week5): the AuthProvider session mirror, the protected tab  *)
(* layout, the login and profile screens and the notes screen with its     *)
(* remote CRUD calls, as one state machine.                                *)
(*                                                                         *)
(* React is modelled by its commit rule: a state update commits a render,  *)
(* the passive effects of that commit are flushed before the next context  *)
(* update is rendered, and an async handler keeps the values its closure   *)
(* captured when it was created.                                           *)
(***************************************************************************)
EXTENDS Integers, Sequences, FiniteSets, Bags, TLC

\* ------------------------------------------------------------------ bounds
MaxEvents == 2      \* session-change notifications waiting for delivery
MaxPush == 1        \* session changes the provider makes on its own
MaxReqs == 2        \* notes requests in flight at once
MaxNotes == 3       \* note ids the backend ever hands out
MaxAppChanges == 3  \* AppState changes of one run of the app
MaxCalls == 2       \* CineView profile handlers awaiting the device at once
MaxPage == 2        \* pages of popular movies the API has
MaxNow == 5         \* the last millisecond of the Todo app's clock
MaxTodos == 4       \* todos in the Todo app's list
MaxIdeaClock == 3   \* the last millisecond of IdeaStorm's clock, on the next day
MaxIdeas == 3       \* ideas in IdeaStorm's list
MaxGuesses == 4     \* GuessQuest guesses made on one Game screen
MaxFetches == 3     \* CineView fetchMovies runs awaiting the response at once

Users == {"u1", "u2"}
NoSession == "null"
Sessions == Users \cup {NoSession}

Emails == {"", "u1"}    \* the account typed on this device; an email names its user
Passwords == {"", "pw"}
Titles == {"", " ", "a"}
Contents == {"", "c"}

NoCall == [kind |-> "none"]
NoAlert == "none"

VARIABLES
    \* the external auth provider
    provSession,    \* the session the provider currently holds
    authEvents,     \* notifications emitted, not yet delivered to the callback
    pushes,         \* how many session changes the provider made on its own
    \* AuthProvider (context/AuthContext.tsx)
    mounted,        \* the provider's mount effect has run
    getSessionCalls,\* calls of supabase.auth.getSession()
    getSessionPending, \* the getSession promise is not settled yet
    session,        \* context value: session
    loading,        \* context value: loading
    \* expo-router
    route,          \* "tabs" | "login"
    \* passive effects scheduled by the last commit
    tabEffect, loginEffect, notesEffect,
    \* LoginScreen
    loginLoading, loginCall,
    \* ProfileScreen
    logoutLoading, logoutCall,
    \* NotesScreen
    notes, modalVisible, newNoteTitle, newNoteContent, notesLoading,
    reqs,           \* notes requests in flight: a bag of request records
    \* the notes table of the backend
    db, nextId,
    \* Alert.alert: the alert the last step put on screen, NoAlert if it put none
    alert,
    \* lib/supabase.ts on a native build
    appState,       \* AppState.currentState
    autoRefresh,    \* the client's refresh ticker is running
    appChanges      \* AppState 'change' events delivered to the listener

VARIABLES
    \* CineView ProfileScreen
    image, location, locationPermission,
    deviceCalls,    \* pickImage / getLocation runs awaiting the device: a bag
    \* CineView FavoritesContextProvider
    favoriteMovieIds,
    \* CineView FavoritesScreen
    favIsLoading, favData, favError,
    favFetch,       \* its one fetch: "idle" | "sent" | "done"
    \* CineView MoviesScreen
    isLoading, data, error, isRefreshing, currentPage,
    moviesMounted,  \* its mount effect has run
    movieFetches,   \* fetchMovies runs awaiting the response: a bag
    \* GuessQuest: the native stack navigator's routes, the focused one last,
    \* each with its params and the state of its screen instance
    navStack,
    \* Todo app (week1)
    newTodoText, todos,
    now,            \* the clock Date.now() reads, in milliseconds
    \* IdeaStorm (week2)
    ideaStormBuild, \* which App.tsx of the course is running
    ideas, newTitle, newDescription,
    ideaDialog,     \* the 'Delete Idea' alert on screen, with what its handler closed over
    ideaClock       \* the clock Date.now() and new Date() read

authVars == <<provSession, authEvents, pushes, mounted, getSessionCalls,
              getSessionPending, session, loading>>
navVars == <<route, tabEffect, loginEffect, notesEffect>>
loginVars == <<loginLoading, loginCall>>
profileVars == <<logoutLoading, logoutCall>>
notesVars == <<notes, modalVisible, newNoteTitle, newNoteContent, notesLoading>>
backendVars == <<db, nextId>>
cineProfileVars == <<image, location, locationPermission, deviceCalls>>

\* the state of the course's other applications, which QuickNotes never touches
favoritesCtxVars == <<favoriteMovieIds>>
favScreenVars == <<favIsLoading, favData, favError, favFetch>>
moviesVars == <<isLoading, data, error, isRefreshing, currentPage, moviesMounted,
                movieFetches>>
cineViewVars == <<cineProfileVars, favoritesCtxVars, favScreenVars, moviesVars>>
guessQuestVars == <<navStack>>
todoVars == <<newTodoText, todos, now>>
ideaStormVars == <<ideaStormBuild, ideas, newTitle, newDescription, ideaDialog, ideaClock>>
courseApps == <<cineViewVars, guessQuestVars, todoVars, ideaStormVars>>
clientVars == <<appState, autoRefresh, appChanges>>
\* the state of QuickNotes, which the other applications never touch
quickNotes == <<authVars, navVars, loginVars, profileVars, notesVars, reqs, backendVars,
                clientVars>>

vars == <<authVars, navVars, loginVars, profileVars, notesVars, reqs,
          backendVars, alert, clientVars, courseApps>>

\* ------------------------------------------------------------- pure helpers
\* String.prototype.trim on the titles of the model
Trim(t) == IF t = " " THEN "" ELSE t

\* a row of the notes table; owner is the row's user_id column
Row(i, u, t, c) == [id |-> i, owner |-> u, title |-> t, content |-> c]

\* .order('created_at', { ascending: false }): ids are handed out in creation order
RECURSIVE SortDesc(_)
SortDesc(S) ==
    IF S = {} THEN <<>>
    ELSE LET m == CHOOSE r \in S : \A q \in S : q.id <= r.id
         IN <<m>> \o SortDesc(S \ {m})

\* .from('notes').select(...).eq('user_id', user).order(...)
SelectNotes(user) == SortDesc({r \in db : r.owner = user})

\* notes.filter(note => note.id !== id)
FilterOut(list, id) == SelectSeq(list, LAMBDA n : n.id # id)

Ids(list) == {list[k].id : k \in 1..Len(list)}

\* ------------------------------------------------------------ what is shown
\* TabLayout's return value
TabLayoutRender ==
    IF route # "tabs" THEN "unmounted"
    ELSE IF loading THEN "null"
    ELSE "Tabs"

TabsShown == TabLayoutRender = "Tabs"

\* NotesScreen returns the ActivityIndicator alone while its loading flag is set
NotesListShown == TabsShown /\ ~notesLoading

\* The passive effects of a commit are flushed before any other task runs:
\* while one is scheduled, only the effects take steps
Idle == ~tabEffect /\ ~loginEffect /\ ~notesEffect

\* ------------------------------------------------------ requests in flight
InFlight(rs) == BagCardinality(rs)
HasRoom(rs) == InFlight(rs) < MaxReqs
Put(rs, r) == rs (+) SetToBag({r})
Take(rs, r) == rs (-) SetToBag({r})
\* request r of the bag replaced by q
Swap(rs, r, q) == Take(rs, r) (+) SetToBag({q})

\* id: for a fetch, the id of the note whose insert this fetch follows (0: none);
\* for an insert, the id the backend gave the new row; for a delete, the target
FetchReq(u, isLive, after) ==
    [kind |-> "fetch", user |-> u, id |-> after, snap |-> <<>>, title |-> "",
     content |-> "", stage |-> "sent", data |-> <<>>, live |-> isLive]
InsertReq(u, t, c) ==
    [kind |-> "insert", user |-> u, id |-> 0, snap |-> <<>>, title |-> t,
     content |-> c, stage |-> "sent", data |-> <<>>, live |-> TRUE]
DeleteReq(i, list) ==
    [kind |-> "delete", user |-> NoSession, id |-> i, snap |-> list, title |-> "",
     content |-> "", stage |-> "sent", data |-> <<>>, live |-> TRUE]

\* An async handler whose screen instance is gone still runs to its end, but
\* the state setters it calls do nothing. Where nothing else is left in the
\* continuation (no alert, no further request) it is dropped at once.
Orphan(c) ==
    IF c.kind = "none" \/ c.stage = "ok" THEN NoCall
    ELSE [c EXCEPT !.live = FALSE]

DropsAtUnmount(r) == r.kind = "fetch" \/ (r.kind = "delete" /\ r.stage = "ok")
OrphanReq(r) == IF DropsAtUnmount(r) THEN r ELSE [r EXCEPT !.live = FALSE]

RECURSIVE OrphanAll(_)
OrphanAll(rs) ==
    IF rs = EmptyBag THEN EmptyBag
    ELSE LET r == CHOOSE x \in BagToSet(rs) : TRUE
             rest == OrphanAll(Take(rs, r))
         IN IF DropsAtUnmount(r) THEN rest ELSE Put(rest, OrphanReq(r))

\* --------------------------------------------------- mounting and unmounting
\* LoginScreen goes away / starts fresh
LoginReset ==
    /\ loginLoading' = FALSE
    /\ loginCall' = Orphan(loginCall)

\* the Tabs subtree (NotesScreen, ProfileScreen) goes away / starts fresh:
\* component state is back at its useState initial values and the handlers
\* still awaiting a response belong to an instance that is gone
TabsReset ==
    /\ notes' = <<>>
    /\ modalVisible' = FALSE
    /\ newNoteTitle' = ""
    /\ newNoteContent' = ""
    /\ notesLoading' = FALSE
    /\ logoutLoading' = FALSE
    /\ logoutCall' = Orphan(logoutCall)
    /\ reqs' = OrphanAll(reqs)

\* ---------------------------------------------------------------- Init
\* CineView ProfileScreen: useState(null) three times, nothing awaited
CineProfileInit ==
    /\ image = "null"
    /\ location = "null"
    /\ locationPermission = "null"
    /\ deviceCalls = EmptyBag

\* CineView FavoritesContextProvider, FavoritesScreen and MoviesScreen: their
\* useState initial values, no effect run yet
CineMoviesInit ==
    /\ favoriteMovieIds = <<>>
    /\ favIsLoading = TRUE
    /\ favData = <<>>
    /\ favError = "null"
    /\ favFetch = "idle"
    /\ isLoading = TRUE
    /\ data = <<>>
    /\ error = "null"
    /\ isRefreshing = FALSE
    /\ currentPage = 1
    /\ moviesMounted = FALSE
    /\ movieFetches = EmptyBag

\* GuessQuest: a route of the stack. StartGame keeps the text of its input in
\* playerName; Game has the playerName param and its targetNumber and
\* guessCount state; GameOver has the four params
RouteOf(name, playerName, targetNumber, guessCount, gaveUp) ==
    [name |-> name, playerName |-> playerName, targetNumber |-> targetNumber,
     guessCount |-> guessCount, gaveUp |-> gaveUp]

\* initialRouteName="StartGame"; useState('')
GuessQuestInit == navStack = <<RouteOf("StartGame", "", 0, 0, "undefined")>>

AppStates == {"active", "background", "inactive"}

\* lib/supabase.ts has run: createClient with autoRefreshToken: true, which
\* on a native build starts the refresh ticker at once, and the AppState
\* listener is registered; the app was launched in state launchState
ClientCreated(launchState) ==
    /\ appState = launchState
    /\ autoRefresh = TRUE
    /\ appChanges = 0

\* a todo of the Todo app
Todo(id, text, completed) == [id |-> id, text |-> text, completed |-> completed]

\* Todo app: useState('') and the two todos the list starts with; the clock
\* stands at some later time
TodoInit ==
    /\ newTodoText = ""
    /\ todos = <<Todo(1, "Learn React", FALSE), Todo(2, "Build a To-Do App", FALSE)>>
    /\ now = 3

NoDialog == [id |-> "none", ideas |-> <<>>]

\* the App.tsx of the finished app, and the one of Session 5
IdeaStormBuilds == {"final", "session5"}

\* IdeaStorm: useState<Idea[]>([]), useState(''), useState('')
IdeaStormInit ==
    /\ ideas = <<>>
    /\ newTitle = ""
    /\ newDescription = ""
    /\ ideaDialog = NoDialog
    /\ ideaClock = 1

\* the screens and providers as constructed, before any effect has run
InitScreens ==
    /\ provSession \in Sessions
    /\ authEvents = <<>>
    /\ pushes = 0
    /\ mounted = FALSE
    /\ getSessionCalls = 0
    /\ getSessionPending = FALSE
    /\ session = NoSession
    /\ loading = TRUE
    /\ route = "tabs"
    /\ tabEffect = TRUE
    /\ loginEffect = FALSE
    /\ notesEffect = FALSE
    /\ loginLoading = FALSE
    /\ loginCall = NoCall
    /\ logoutLoading = FALSE
    /\ logoutCall = NoCall
    /\ notes = <<>>
    /\ modalVisible = FALSE
    /\ newNoteTitle = ""
    /\ newNoteContent = ""
    /\ notesLoading = FALSE
    /\ reqs = EmptyBag
    /\ db = {Row(1, "u1", "a", ""), Row(2, "u2", "a", "")}
    /\ nextId = 3
    /\ alert = NoAlert
    /\ CineProfileInit
    /\ CineMoviesInit
    /\ GuessQuestInit
    /\ TodoInit
    /\ IdeaStormInit

\* the app launched in the foreground
Init == InitScreens /\ ClientCreated("active") /\ ideaStormBuild = "final"

\* ------------------------------------------------------------ AuthProvider
\* useEffect(() => { getSession().then(...); onAuthStateChange(...) }, [])
AuthProviderMount ==
    /\ Idle
    /\ ~mounted
    /\ mounted' = TRUE
    /\ getSessionCalls' = getSessionCalls + 1
    /\ getSessionPending' = TRUE
    /\ UNCHANGED <<provSession, authEvents, pushes, session, loading>>
    /\ UNCHANGED <<navVars, loginVars, profileVars, notesVars, reqs, backendVars>>
    /\ alert' = NoAlert
    /\ UNCHANGED <<clientVars, courseApps>>

\* One commit of the provider's state: session := s, loading := l. The
\* consumers whose effect dependencies changed get their effect scheduled, and
\* NotesScreen mounts (with its effect) when the Tabs are rendered first. The
\* commit waits for room for the fetch that effect will send.
Commit(s, l) ==
    /\ Idle
    /\ (route = "tabs" /\ ~l /\ s # NoSession /\ (s # session \/ loading)) => HasRoom(reqs)
    /\ session' = s
    /\ loading' = l
    /\ tabEffect' = (route = "tabs" /\ (s # session \/ l # loading))
    /\ loginEffect' = (route = "login" /\ s # session)
    /\ notesEffect' = (route = "tabs" /\ ~l /\ (s # session \/ loading))
    /\ UNCHANGED route

\* setSession(s); setLoading(false)
ApplySession(s) == Commit(s, FALSE)

OnInitialSession_KeepsLoading(s) == Commit(s, loading)

\* the .then callback of getSession
OnInitialSession(s) == ApplySession(s)

OnAuthStateChange_IgnoresNull(s) == ApplySession(IF s = NoSession THEN session ELSE s)

OnAuthStateChange_Reloads(s) == Commit(s, TRUE)

\* the onAuthStateChange callback
OnAuthStateChange(s) == ApplySession(s)

\* supabase.auth.getSession().then(({ data: { session } }) => ...)
GetSessionResolve ==
    /\ getSessionPending
    /\ getSessionPending' = FALSE
    /\ OnInitialSession(provSession)
    /\ UNCHANGED <<provSession, authEvents, pushes, mounted, getSessionCalls>>
    /\ UNCHANGED <<loginVars, profileVars, notesVars, reqs, backendVars>>
    /\ alert' = NoAlert
    /\ UNCHANGED <<clientVars, courseApps>>

\* supabase.auth.onAuthStateChange((event, session) => ...): the oldest
\* notification not yet delivered is handed to the callback
AuthStateChange ==
    /\ authEvents # <<>>
    /\ authEvents' = Tail(authEvents)
    /\ OnAuthStateChange(Head(authEvents))
    /\ UNCHANGED <<provSession, pushes, mounted, getSessionCalls, getSessionPending>>
    /\ UNCHANGED <<loginVars, profileVars, notesVars, reqs, backendVars>>
    /\ alert' = NoAlert
    /\ UNCHANGED <<clientVars, courseApps>>

\* the provider changes the session on its own: token refresh (same user),
\* expiry (null), a sign-in or sign-out in another tab of the web build
ProviderPush(s) ==
    /\ Idle
    /\ mounted
    /\ pushes < MaxPush
    /\ Len(authEvents) < MaxEvents
    /\ pushes' = pushes + 1
    /\ provSession' = s
    /\ authEvents' = Append(authEvents, s)
    /\ UNCHANGED <<mounted, getSessionCalls, getSessionPending, session, loading>>
    /\ UNCHANGED <<navVars, loginVars, profileVars, notesVars, reqs, backendVars>>
    /\ alert' = NoAlert
    /\ UNCHANGED <<clientVars, courseApps>>

\* --------------------------------------------------------------- TabLayout
\* useEffect(() => { if (!loading && !session) router.replace('/login') ... },
\*           [session, loading])
TabRedirects_IgnoresLoading == session = NoSession

\* if (!loading && !session)
TabRedirects == ~loading /\ session = NoSession

TabLayoutEffect ==
    /\ tabEffect
    /\ route = "tabs"
    /\ IF TabRedirects
       THEN /\ route' = "login"
            /\ tabEffect' = FALSE
            /\ notesEffect' = FALSE
            /\ loginEffect' = TRUE
            /\ TabsReset
            /\ LoginReset
       ELSE /\ tabEffect' = FALSE
            /\ UNCHANGED <<route, loginEffect, notesEffect>>
            /\ UNCHANGED <<loginVars, profileVars, notesVars, reqs>>
    /\ UNCHANGED <<authVars, backendVars>>
    /\ alert' = NoAlert
    /\ UNCHANGED <<clientVars, courseApps>>

\* ------------------------------------------------------------- LoginScreen
\* useEffect(() => { if (session) router.replace('/(tabs)/notes') }, [session])
LoginRedirects_Inverted == session = NoSession

\* if (session)
LoginRedirects == session # NoSession

LoginEffect ==
    /\ loginEffect
    /\ route = "login"
    /\ IF LoginRedirects
       THEN /\ HasRoom(OrphanAll(reqs))
            /\ route' = "tabs"
            /\ loginEffect' = FALSE
            /\ tabEffect' = TRUE
            /\ notesEffect' = ~loading
            /\ LoginReset
            /\ TabsReset
       ELSE /\ loginEffect' = FALSE
            /\ UNCHANGED <<route, tabEffect, notesEffect>>
            /\ UNCHANGED <<loginVars, profileVars, notesVars, reqs>>
    /\ UNCHANGED <<authVars, backendVars>>
    /\ alert' = NoAlert
    /\ UNCHANGED <<clientVars, courseApps>>

InputMissing_OnlyEmail(email, password) == email = ""

\* if (!email || !password)
InputMissing(email, password) == email = "" \/ password = ""

\* handleLogin / handleSignUp up to the await, with the text of the two inputs
LoginPress(kind, email, password) ==
    /\ route = "login" /\ Idle /\ ~loginLoading
    /\ loginCall = NoCall
    /\ IF InputMissing(email, password)
       THEN /\ alert' = "Please enter both email and password"
            /\ UNCHANGED <<loginLoading, loginCall>>
       ELSE /\ loginLoading' = TRUE
            /\ loginCall' = [kind |-> kind, user |-> email, stage |-> "sent", live |-> TRUE]
            /\ alert' = NoAlert
    /\ UNCHANGED <<authVars, navVars, profileVars, notesVars, reqs, backendVars>>
    /\ UNCHANGED <<clientVars, courseApps>>

handleLogin(email, password) == LoginPress("signIn", email, password)
handleSignUp(email, password) == LoginPress("signUp", email, password)

\* the provider settles signInWithPassword / signUp: a new session is stored
\* and announced, or the call fails with an error value or an exception
LoginServe(outcome) ==
    /\ Idle
    /\ loginCall.kind # "none"
    /\ loginCall.stage = "sent"
    /\ outcome = "okNoSession" => loginCall.kind = "signUp"
    /\ loginCall' = [loginCall EXCEPT !.stage = outcome]
    /\ IF outcome = "ok"
       THEN /\ Len(authEvents) < MaxEvents
            /\ provSession' = loginCall.user
            /\ authEvents' = Append(authEvents, loginCall.user)
       ELSE UNCHANGED <<provSession, authEvents>>
    /\ UNCHANGED <<pushes, mounted, getSessionCalls, getSessionPending, session, loading>>
    /\ UNCHANGED loginLoading
    /\ UNCHANGED <<navVars, profileVars, notesVars, reqs, backendVars>>
    /\ alert' = NoAlert
    /\ UNCHANGED <<clientVars, courseApps>>

LoginReturn_NoFinally ==
    /\ Idle
    /\ loginCall.kind # "none"
    /\ loginCall.stage # "sent"
    /\ alert' = CASE loginCall.stage = "error" /\ loginCall.kind = "signIn" -> "Login Error"
                  [] loginCall.stage = "error" /\ loginCall.kind = "signUp" -> "Signup Error"
                  [] loginCall.stage = "okNoSession" -> "Please check your email for verification!"
                  [] loginCall.stage = "thrown" -> "An unexpected error occurred"
                  [] OTHER -> NoAlert
    /\ loginLoading' = IF loginCall.live /\ loginCall.stage # "thrown" THEN FALSE
                       ELSE loginLoading
    /\ loginCall' = NoCall
    /\ UNCHANGED <<authVars, navVars, profileVars, notesVars, reqs, backendVars>>
    /\ UNCHANGED <<clientVars, courseApps>>

\* handleLogin / handleSignUp after the await: the if/else, catch and finally
LoginReturn ==
    /\ Idle
    /\ loginCall.kind # "none"
    /\ loginCall.stage # "sent"
    /\ alert' = CASE loginCall.stage = "error" /\ loginCall.kind = "signIn" -> "Login Error"
                  [] loginCall.stage = "error" /\ loginCall.kind = "signUp" -> "Signup Error"
                  [] loginCall.stage = "okNoSession" -> "Please check your email for verification!"
                  [] loginCall.stage = "thrown" -> "An unexpected error occurred"
                  [] OTHER -> NoAlert
    /\ loginLoading' = IF loginCall.live THEN FALSE ELSE loginLoading
    /\ loginCall' = NoCall
    /\ UNCHANGED <<authVars, navVars, profileVars, notesVars, reqs, backendVars>>
    /\ UNCHANGED <<clientVars, courseApps>>

\* ----------------------------------------------------------- ProfileScreen
\* handleLogout up to the await
handleLogout ==
    /\ TabsShown /\ Idle /\ ~logoutLoading
    /\ logoutCall = NoCall
    /\ logoutLoading' = TRUE
    /\ logoutCall' = [kind |-> "signOut", user |-> NoSession, stage |-> "sent", live |-> TRUE]
    /\ UNCHANGED <<authVars, navVars, loginVars, notesVars, reqs, backendVars>>
    /\ alert' = NoAlert
    /\ UNCHANGED <<clientVars, courseApps>>

\* the provider settles signOut
LogoutServe(outcome) ==
    /\ Idle
    /\ logoutCall.kind # "none"
    /\ logoutCall.stage = "sent"
    /\ logoutCall' = [logoutCall EXCEPT !.stage = outcome]
    /\ IF outcome = "ok"
       THEN /\ Len(authEvents) < MaxEvents
            /\ provSession' = NoSession
            /\ authEvents' = Append(authEvents, NoSession)
       ELSE UNCHANGED <<provSession, authEvents>>
    /\ UNCHANGED <<pushes, mounted, getSessionCalls, getSessionPending, session, loading>>
    /\ UNCHANGED logoutLoading
    /\ UNCHANGED <<navVars, loginVars, notesVars, reqs, backendVars>>
    /\ alert' = NoAlert
    /\ UNCHANGED <<clientVars, courseApps>>

LogoutReturn_SwallowsThrown ==
    /\ Idle
    /\ logoutCall.kind # "none"
    /\ logoutCall.stage # "sent"
    /\ alert' = CASE logoutCall.stage = "error" -> "Logout Error"
                  [] OTHER -> NoAlert
    /\ logoutLoading' = IF logoutCall.live THEN FALSE ELSE logoutLoading
    /\ logoutCall' = NoCall
    /\ UNCHANGED <<authVars, navVars, loginVars, notesVars, reqs, backendVars>>
    /\ UNCHANGED <<clientVars, courseApps>>

\* handleLogout after the await
LogoutReturn ==
    /\ Idle
    /\ logoutCall.kind # "none"
    /\ logoutCall.stage # "sent"
    /\ alert' = CASE logoutCall.stage = "error" -> "Logout Error"
                  [] logoutCall.stage = "thrown" -> "An unexpected error occurred"
                  [] OTHER -> NoAlert
    /\ logoutLoading' = IF logoutCall.live THEN FALSE ELSE logoutLoading
    /\ logoutCall' = NoCall
    /\ UNCHANGED <<authVars, navVars, loginVars, notesVars, reqs, backendVars>>
    /\ UNCHANGED <<clientVars, courseApps>>

\* ------------------------------------------------------------- NotesScreen
\* fetchNotes() as called by a closure that captured session user u:
\* if (!session) return; setLoading(true); the select is sent
FetchNotes(u, base, isLive, after) ==
    IF u = NoSession
    THEN /\ reqs' = base
         /\ UNCHANGED notesLoading
    ELSE /\ HasRoom(base)
         /\ reqs' = Put(base, FetchReq(u, isLive, after))
         /\ notesLoading' = IF isLive THEN TRUE ELSE notesLoading

\* useEffect(() => { fetchNotes(); }, [session])
NotesEffect ==
    /\ notesEffect
    /\ TabsShown
    /\ notesEffect' = FALSE
    /\ FetchNotes(session, reqs, TRUE, 0)
    /\ UNCHANGED <<notes, modalVisible, newNoteTitle, newNoteContent>>
    /\ UNCHANGED <<route, tabEffect, loginEffect>>
    /\ UNCHANGED <<authVars, loginVars, profileVars, backendVars>>
    /\ alert' = NoAlert
    /\ UNCHANGED <<clientVars, courseApps>>

\* the add button: setModalVisible(true)
OpenModal ==
    /\ NotesListShown /\ Idle
    /\ ~modalVisible
    /\ modalVisible' = TRUE
    /\ UNCHANGED <<notes, newNoteTitle, newNoteContent, notesLoading>>
    /\ UNCHANGED <<authVars, navVars, loginVars, profileVars, reqs, backendVars>>
    /\ alert' = NoAlert
    /\ UNCHANGED <<clientVars, courseApps>>

\* the modal's Cancel button
CancelModal ==
    /\ NotesListShown /\ Idle
    /\ modalVisible
    /\ modalVisible' = FALSE
    /\ newNoteTitle' = ""
    /\ newNoteContent' = ""
    /\ UNCHANGED <<notes, notesLoading>>
    /\ UNCHANGED <<authVars, navVars, loginVars, profileVars, reqs, backendVars>>
    /\ alert' = NoAlert
    /\ UNCHANGED <<clientVars, courseApps>>

TypeTitle(t) ==
    /\ NotesListShown /\ Idle
    /\ modalVisible
    /\ newNoteTitle' = t
    /\ UNCHANGED <<notes, modalVisible, newNoteContent, notesLoading>>
    /\ UNCHANGED <<authVars, navVars, loginVars, profileVars, reqs, backendVars>>
    /\ alert' = NoAlert
    /\ UNCHANGED <<clientVars, courseApps>>

TypeContent(c) ==
    /\ NotesListShown /\ Idle
    /\ modalVisible
    /\ newNoteContent' = c
    /\ UNCHANGED <<notes, modalVisible, newNoteTitle, notesLoading>>
    /\ UNCHANGED <<authVars, navVars, loginVars, profileVars, reqs, backendVars>>
    /\ alert' = NoAlert
    /\ UNCHANGED <<clientVars, courseApps>>

\* addNote up to the await (the modal's Save button)
addNote ==
    /\ NotesListShown /\ Idle
    /\ modalVisible
    /\ IF Trim(newNoteTitle) = "" \/ session = NoSession
       THEN /\ alert' = "Please enter a title"
            /\ UNCHANGED reqs
       ELSE /\ HasRoom(reqs)
            /\ reqs' = Put(reqs, InsertReq(session, newNoteTitle, newNoteContent))
            /\ alert' = NoAlert
    /\ UNCHANGED <<authVars, navVars, loginVars, profileVars, notesVars, backendVars>>
    /\ UNCHANGED <<clientVars, courseApps>>

\* deleteNote(id) up to the await
deleteNote(id) ==
    /\ Idle
    /\ HasRoom(reqs)
    /\ reqs' = Put(reqs, DeleteReq(id, notes))
    /\ UNCHANGED <<authVars, navVars, loginVars, profileVars, notesVars, backendVars>>
    /\ alert' = NoAlert
    /\ UNCHANGED <<clientVars, courseApps>>

\* confirmDelete(id): the 'Delete Note / Are you sure?' prompt. Nothing in the
\* screen calls it, so it is no disjunct of the next-state relation.
confirmDelete(id) ==
    /\ alert' = "Delete Note"
    /\ UNCHANGED <<authVars, navVars, loginVars, profileVars, notesVars, reqs, backendVars>>
    /\ UNCHANGED <<clientVars, courseApps>>

\* the trash button of a rendered note: onPress={() => deleteNote(item.id)};
\* the open Modal covers the list
PressTrash(id) ==
    /\ NotesListShown /\ ~modalVisible
    /\ id \in Ids(notes)
    /\ deleteNote(id)

\* the backend handles one request: each kind succeeds or reports an error
BackendServe(r, ok) ==
    /\ Idle
    /\ r.stage = "sent"
    /\ IF ~ok
       THEN /\ reqs' = Swap(reqs, r, [r EXCEPT !.stage = "error"])
            /\ UNCHANGED <<db, nextId>>
       ELSE CASE r.kind = "fetch" ->
                 /\ reqs' = Swap(reqs, r, [r EXCEPT !.stage = "ok", !.data = SelectNotes(r.user)])
                 /\ UNCHANGED <<db, nextId>>
              [] r.kind = "insert" ->
                 /\ nextId <= MaxNotes
                 /\ db' = db \cup {Row(nextId, r.user, r.title, r.content)}
                 /\ nextId' = nextId + 1
                 /\ reqs' = Swap(reqs, r, [r EXCEPT !.stage = "ok", !.id = nextId])
              [] r.kind = "delete" ->
                 /\ db' = {x \in db : x.id # r.id}
                 /\ reqs' = Swap(reqs, r, [r EXCEPT !.stage = "ok"])
                 /\ UNCHANGED nextId
    /\ UNCHANGED <<authVars, navVars, loginVars, profileVars, notesVars>>
    /\ alert' = NoAlert
    /\ UNCHANGED <<clientVars, courseApps>>

\* fetchNotes after the await
FetchReturn(r) ==
    /\ Idle
    /\ r.kind = "fetch"
    /\ r.stage # "sent"
    /\ notes' = IF r.live /\ r.stage = "ok" THEN r.data ELSE notes
    /\ notesLoading' = IF r.live THEN FALSE ELSE notesLoading
    /\ reqs' = Take(reqs, r)
    /\ UNCHANGED <<modalVisible, newNoteTitle, newNoteContent>>
    /\ UNCHANGED <<authVars, navVars, loginVars, profileVars, backendVars>>
    /\ alert' = NoAlert
    /\ UNCHANGED <<clientVars, courseApps>>

InsertReturn_NoRefetch(r) ==
    /\ Idle
    /\ r.kind = "insert"
    /\ r.stage # "sent"
    /\ IF r.stage = "error"
       THEN /\ alert' = "Error saving note"
            /\ reqs' = Take(reqs, r)
            /\ UNCHANGED <<modalVisible, newNoteTitle, newNoteContent, notesLoading>>
       ELSE /\ newNoteTitle' = IF r.live THEN "" ELSE newNoteTitle
            /\ newNoteContent' = IF r.live THEN "" ELSE newNoteContent
            /\ modalVisible' = IF r.live THEN FALSE ELSE modalVisible
            /\ reqs' = Take(reqs, r)
            /\ UNCHANGED notesLoading
            /\ alert' = NoAlert
    /\ UNCHANGED notes
    /\ UNCHANGED <<authVars, navVars, loginVars, profileVars, backendVars>>
    /\ UNCHANGED <<clientVars, courseApps>>

\* addNote after the await
InsertReturn(r) ==
    /\ Idle
    /\ r.kind = "insert"
    /\ r.stage # "sent"
    /\ IF r.stage = "error"
       THEN /\ alert' = "Error saving note"
            /\ reqs' = Take(reqs, r)
            /\ UNCHANGED <<modalVisible, newNoteTitle, newNoteContent, notesLoading>>
       ELSE /\ newNoteTitle' = IF r.live THEN "" ELSE newNoteTitle
            /\ newNoteContent' = IF r.live THEN "" ELSE newNoteContent
            /\ modalVisible' = IF r.live THEN FALSE ELSE modalVisible
            /\ FetchNotes(r.user, Take(reqs, r), r.live, r.id)
            /\ alert' = NoAlert
    /\ UNCHANGED notes
    /\ UNCHANGED <<authVars, navVars, loginVars, profileVars, backendVars>>
    /\ UNCHANGED <<clientVars, courseApps>>

DeleteReturn_Silent(r) ==
    /\ Idle
    /\ r.kind = "delete"
    /\ r.stage # "sent"
    /\ IF r.stage = "error"
       THEN /\ alert' = NoAlert
            /\ UNCHANGED notes
       ELSE /\ notes' = IF r.live THEN FilterOut(r.snap, r.id) ELSE notes
            /\ alert' = NoAlert
    /\ reqs' = Take(reqs, r)
    /\ UNCHANGED <<modalVisible, newNoteTitle, newNoteContent, notesLoading>>
    /\ UNCHANGED <<authVars, navVars, loginVars, profileVars, backendVars>>
    /\ UNCHANGED <<clientVars, courseApps>>

\* deleteNote after the await
DeleteReturn(r) ==
    /\ Idle
    /\ r.kind = "delete"
    /\ r.stage # "sent"
    /\ IF r.stage = "error"
       THEN /\ alert' = "Error deleting note"
            /\ UNCHANGED notes
       ELSE /\ notes' = IF r.live THEN FilterOut(r.snap, r.id) ELSE notes
            /\ alert' = NoAlert
    /\ reqs' = Take(reqs, r)
    /\ UNCHANGED <<modalVisible, newNoteTitle, newNoteContent, notesLoading>>
    /\ UNCHANGED <<authVars, navVars, loginVars, profileVars, backendVars>>
    /\ UNCHANGED <<clientVars, courseApps>>

\* ------------------------------------------------------------ specification
Outcomes == {"ok", "okNoSession", "error", "thrown"}

Next ==
    \/ AuthProviderMount
    \/ GetSessionResolve
    \/ AuthStateChange
    \/ \E s \in Sessions : ProviderPush(s)
    \/ TabLayoutEffect
    \/ LoginEffect
    \/ \E e \in Emails, p \in Passwords : handleLogin(e, p)
    \/ \E e \in Emails, p \in Passwords : handleSignUp(e, p)
    \/ \E o \in Outcomes : LoginServe(o)
    \/ LoginReturn
    \/ handleLogout
    \/ \E o \in Outcomes \ {"okNoSession"} : LogoutServe(o)
    \/ LogoutReturn
    \/ NotesEffect
    \/ OpenModal
    \/ CancelModal
    \/ \E t \in Titles : TypeTitle(t)
    \/ \E c \in Contents : TypeContent(c)
    \/ addNote
    \/ \E id \in 1..MaxNotes : PressTrash(id)
    \/ \E r \in BagToSet(reqs), ok \in BOOLEAN : BackendServe(r, ok)
    \/ \E r \in BagToSet(reqs) : FetchReturn(r)
    \/ \E r \in BagToSet(reqs) : InsertReturn(r)
    \/ \E r \in BagToSet(reqs) : DeleteReturn(r)

Spec == Init /\ [][Next]_vars

\* the authentication flow: provider, context, routing, login and logout, and
\* the fetch the notes screen issues when it mounts or the session changes
NextAuth ==
    \/ AuthProviderMount
    \/ GetSessionResolve
    \/ AuthStateChange
    \/ \E s \in Sessions : ProviderPush(s)
    \/ TabLayoutEffect
    \/ LoginEffect
    \/ \E e \in Emails, p \in Passwords : handleLogin(e, p)
    \/ \E e \in Emails, p \in Passwords : handleSignUp(e, p)
    \/ \E o \in Outcomes : LoginServe(o)
    \/ LoginReturn
    \/ handleLogout
    \/ \E o \in Outcomes \ {"okNoSession"} : LogoutServe(o)
    \/ LogoutReturn
    \/ NotesEffect
    \/ \E r \in BagToSet(reqs), ok \in BOOLEAN : BackendServe(r, ok)
    \/ \E r \in BagToSet(reqs) : FetchReturn(r)

SpecAuth == Init /\ [][NextAuth]_vars

\* the notes screen under the sessions the provider delivers, without the
\* login and profile screens being used
NextNotes ==
    \/ AuthProviderMount
    \/ GetSessionResolve
    \/ AuthStateChange
    \/ \E s \in Sessions : ProviderPush(s)
    \/ TabLayoutEffect
    \/ LoginEffect
    \/ NotesEffect
    \/ OpenModal
    \/ CancelModal
    \/ \E t \in Titles : TypeTitle(t)
    \/ \E c \in Contents : TypeContent(c)
    \/ addNote
    \/ \E id \in 1..MaxNotes : PressTrash(id)
    \/ \E r \in BagToSet(reqs), ok \in BOOLEAN : BackendServe(r, ok)
    \/ \E r \in BagToSet(reqs) : FetchReturn(r)
    \/ \E r \in BagToSet(reqs) : InsertReturn(r)
    \/ \E r \in BagToSet(reqs) : DeleteReturn(r)

SpecNotes == Init /\ [][NextNotes]_vars

\* The provider, the backend and React's scheduler keep running; the user and
\* the provider's own session changes may stop at any time.
AuthFairness ==
    /\ WF_vars(AuthProviderMount)
    /\ WF_vars(GetSessionResolve)
    /\ WF_vars(AuthStateChange)
    /\ WF_vars(TabLayoutEffect)
    /\ WF_vars(LoginEffect)
    /\ WF_vars(NotesEffect)
    /\ WF_vars(\E o \in Outcomes : LoginServe(o))
    /\ WF_vars(LoginReturn)
    /\ WF_vars(\E o \in Outcomes \ {"okNoSession"} : LogoutServe(o))
    /\ WF_vars(LogoutReturn)
    /\ WF_vars(\E r \in BagToSet(reqs), ok \in BOOLEAN : BackendServe(r, ok))
    /\ WF_vars(\E r \in BagToSet(reqs) : FetchReturn(r))

FairAuth == SpecAuth /\ AuthFairness

\* supabase.auth.getSession() rejects (the stored session cannot be read): the
\* .then callback is not called, and the chain has no rejection handler
GetSessionReject ==
    /\ getSessionPending
    /\ getSessionPending' = FALSE
    /\ UNCHANGED <<provSession, authEvents, pushes, mounted, getSessionCalls, session, loading>>
    /\ UNCHANGED <<navVars, loginVars, profileVars, notesVars, reqs, backendVars>>
    /\ alert' = NoAlert
    /\ UNCHANGED <<clientVars, courseApps>>

\* the authentication flow with a getSession call that may fail
NextStartup ==
    \/ NextAuth
    \/ GetSessionReject

SpecStartup == Init /\ [][NextStartup]_vars

\* the getSession call settles one way or the other
FairStartup == SpecStartup /\ AuthFairness /\ WF_vars(GetSessionResolve \/ GetSessionReject)

\* ------------------------------------------------- lib/supabase.ts (native)
AutoRefreshStarts_OnAnyChange(state) == TRUE

\* if (state === 'active')
AutoRefreshStarts(state) == state = "active"

\* AppState.addEventListener('change', (state) => { ... }): the app moves to
\* another state and the listener starts or stops the ticker
AppStateChange(state) ==
    /\ Idle
    /\ state # appState
    /\ appChanges < MaxAppChanges
    /\ appState' = state
    /\ appChanges' = appChanges + 1
    /\ autoRefresh' = AutoRefreshStarts(state)
    /\ UNCHANGED <<authVars, navVars, loginVars, profileVars, notesVars, reqs, backendVars>>
    /\ UNCHANGED courseApps
    /\ alert' = NoAlert

\* a tick of the running ticker finds the token about to expire: the session
\* is refreshed (TOKEN_REFRESHED), or the refresh is refused and the session
\* is removed (SIGNED_OUT)
AutoRefreshTick(refreshed) ==
    /\ Idle
    /\ autoRefresh
    /\ mounted
    /\ provSession # NoSession
    /\ pushes < MaxPush
    /\ Len(authEvents) < MaxEvents
    /\ pushes' = pushes + 1
    /\ provSession' = IF refreshed THEN provSession ELSE NoSession
    /\ authEvents' = Append(authEvents, IF refreshed THEN provSession ELSE NoSession)
    /\ UNCHANGED <<mounted, getSessionCalls, getSessionPending, session, loading>>
    /\ UNCHANGED <<navVars, loginVars, profileVars, notesVars, reqs, backendVars>>
    /\ UNCHANGED <<clientVars, courseApps>>
    /\ alert' = NoAlert

\* the client under the app's life cycle, with the provider, the context and
\* the screens' effects following the sessions it delivers
NextClient ==
    \/ \E st \in AppStates : AppStateChange(st)
    \/ \E refreshed \in BOOLEAN : AutoRefreshTick(refreshed)
    \/ AuthProviderMount
    \/ GetSessionResolve
    \/ AuthStateChange
    \/ TabLayoutEffect
    \/ LoginEffect
    \/ NotesEffect
    \/ \E r \in BagToSet(reqs), ok \in BOOLEAN : BackendServe(r, ok)
    \/ \E r \in BagToSet(reqs) : FetchReturn(r)

\* the app is launched in the foreground, or (by the system) in the background
InitClient ==
    /\ InitScreens
    /\ ideaStormBuild = "final"
    /\ \E st \in AppStates : ClientCreated(st)

SpecClient == InitClient /\ [][NextClient]_vars

\* ======================================================================
\* CineView (week4)
\* ======================================================================

\* ------------------------------------------------- ProfileScreen (device APIs)
PermissionStatuses == {"granted", "denied", "undetermined"}
Uris == {"uri1", "uri2"}
Positions == {"pos1", "pos2"}

\* one run of pickImage / getLocation: which handler, the await it stands at
\* ("permission": the permission request, "api": the protected call) and the
\* value the awaited promise settled with ("pending" until then)
DeviceCall(fn) == [fn |-> fn, at |-> "permission", settled |-> "pending"]
\* the run going on to its second await
DeviceCallAtApi(c) == [c EXCEPT !.at = "api", !.settled = "pending"]

\* everything but the CineView profile screen and the alert
NotCineProfile == <<quickNotes, favoritesCtxVars, favScreenVars, moviesVars, guessQuestVars, todoVars, ideaStormVars>>

\* pickImage up to its first await: requestMediaLibraryPermissionsAsync()
pickImage ==
    /\ InFlight(deviceCalls) < MaxCalls
    /\ deviceCalls' = Put(deviceCalls, DeviceCall("pickImage"))
    /\ alert' = NoAlert
    /\ UNCHANGED <<image, location, locationPermission>>
    /\ UNCHANGED NotCineProfile

\* getLocation up to its first await: requestForegroundPermissionsAsync()
getLocation ==
    /\ InFlight(deviceCalls) < MaxCalls
    /\ deviceCalls' = Put(deviceCalls, DeviceCall("getLocation"))
    /\ alert' = NoAlert
    /\ UNCHANGED <<image, location, locationPermission>>
    /\ UNCHANGED NotCineProfile

\* the device settles the promise a run awaits: the permission dialog is
\* answered, the picker is closed with an asset or canceled, the position is
\* read or the read throws
DeviceSettles(c, value) ==
    /\ c.settled = "pending"
    /\ CASE c.at = "permission" -> value \in PermissionStatuses
         [] c.at = "api" /\ c.fn = "pickImage" -> value \in Uris \cup {"canceled"}
         [] c.at = "api" /\ c.fn = "getLocation" -> value \in Positions \cup {"thrown"}
    /\ deviceCalls' = Swap(deviceCalls, c, [c EXCEPT !.settled = value])
    /\ alert' = NoAlert
    /\ UNCHANGED <<image, location, locationPermission>>
    /\ UNCHANGED NotCineProfile

PermissionRefused_OnlyDenied(status) == status = "denied"

\* if (status !== 'granted')
PermissionRefused(status) == status # "granted"

\* pickImage after the permission request: the alert and return, or
\* launchImageLibraryAsync(...)
pickImageChecked(c) ==
    /\ c.fn = "pickImage" /\ c.at = "permission" /\ c.settled # "pending"
    /\ IF PermissionRefused(c.settled)
       THEN /\ alert' = "Permission Required"
            /\ deviceCalls' = Take(deviceCalls, c)
       ELSE /\ alert' = NoAlert
            /\ deviceCalls' = Swap(deviceCalls, c, DeviceCallAtApi(c))
    /\ UNCHANGED <<image, location, locationPermission>>
    /\ UNCHANGED NotCineProfile

\* pickImage after the picker: if (!result.canceled) setImage(result.assets[0].uri)
pickImagePicked(c) ==
    /\ c.fn = "pickImage" /\ c.at = "api" /\ c.settled # "pending"
    /\ image' = IF c.settled = "canceled" THEN image ELSE c.settled
    /\ deviceCalls' = Take(deviceCalls, c)
    /\ alert' = NoAlert
    /\ UNCHANGED <<location, locationPermission>>
    /\ UNCHANGED NotCineProfile

\* getLocation after the permission request: setLocationPermission(status),
\* then the alert and return, or getCurrentPositionAsync({})
getLocationChecked(c) ==
    /\ c.fn = "getLocation" /\ c.at = "permission" /\ c.settled # "pending"
    /\ locationPermission' = c.settled
    /\ IF PermissionRefused(c.settled)
       THEN /\ alert' = "Permission Required"
            /\ deviceCalls' = Take(deviceCalls, c)
       ELSE /\ alert' = NoAlert
            /\ deviceCalls' = Swap(deviceCalls, c, DeviceCallAtApi(c))
    /\ UNCHANGED <<image, location>>
    /\ UNCHANGED NotCineProfile

\* getLocation after the position read: setLocation(...), or the catch's alert
getLocationRead(c) ==
    /\ c.fn = "getLocation" /\ c.at = "api" /\ c.settled # "pending"
    /\ IF c.settled = "thrown"
       THEN /\ alert' = "Error"
            /\ UNCHANGED location
       ELSE /\ alert' = NoAlert
            /\ location' = c.settled
    /\ deviceCalls' = Take(deviceCalls, c)
    /\ UNCHANGED <<image, locationPermission>>
    /\ UNCHANGED NotCineProfile

DeviceValues == PermissionStatuses \cup Uris \cup Positions \cup {"canceled", "thrown"}

NextCineProfile ==
    \/ pickImage
    \/ getLocation
    \/ \E c \in BagToSet(deviceCalls), v \in DeviceValues : DeviceSettles(c, v)
    \/ \E c \in BagToSet(deviceCalls) : pickImageChecked(c)
    \/ \E c \in BagToSet(deviceCalls) : pickImagePicked(c)
    \/ \E c \in BagToSet(deviceCalls) : getLocationChecked(c)
    \/ \E c \in BagToSet(deviceCalls) : getLocationRead(c)

\* QuickNotes stays as constructed, with no stored session
InitCine == Init /\ provSession = NoSession

SpecCineProfile == InitCine /\ [][NextCineProfile]_vars

\* ------------------------------------------------------- the movies API
\* /movie/popular?page=p: the results of page p, a movie standing for its id;
\* past the last page the results are empty
MoviePage(p) ==
    CASE p = 1 -> <<2, 1>>
      [] p = 2 -> <<3>>
      [] OTHER -> <<>>

MovieIds == {1, 2, 3}

\* the fetch / response.json() chain resolves, or one of the two throws
FetchOutcomes == {"ok", "thrown"}

\* ... or resolves with the body of an HTTP error, which has no results
\* (fetch does not reject on an error status, and response.ok is not looked at)
ResponseOutcomes == FetchOutcomes \cup {"noResults"}

\* json.results of such a body: undefined (no movie has id 0)
Undefined == <<0>>

\* a state whose updater threw a TypeError when the screen rendered
RenderThrew == <<0, 0>>

\* Array.prototype.includes
Includes(list, x) == \E k \in 1..Len(list) : list[k] = x

\* ------------------------------------------- FavoritesContextProvider
NotFavoritesCtx == <<quickNotes, cineProfileVars, favScreenVars, moviesVars, guessQuestVars, todoVars, ideaStormVars>>

\* (currentIds) => [...currentIds, id]
IdsWith(currentIds, id) == Append(currentIds, id)

\* (currentIds) => currentIds.filter((movieId) => movieId !== id)
IdsWithout(currentIds, id) == SelectSeq(currentIds, LAMBDA movieId : movieId # id)

\* setFavoriteMovieIds(updater)
addFavorite(id) == favoriteMovieIds' = IdsWith(favoriteMovieIds, id)

removeFavorite(id) == favoriteMovieIds' = IdsWithout(favoriteMovieIds, id)

\* ------------------------------------------------------- FavoritesScreen
NotFavScreen == <<quickNotes, cineProfileVars, favoritesCtxVars, moviesVars, guessQuestVars, todoVars, ideaStormVars>>

\* useEffect(() => { fetchMovies(); }, []) up to the await
FavoritesMount ==
    /\ favFetch = "idle"
    /\ favFetch' = "sent"
    /\ alert' = NoAlert
    /\ UNCHANGED <<favIsLoading, favData, favError>>
    /\ UNCHANGED NotFavScreen

\* fetchMovies after the await: try / catch / finally
FavoritesFetchReturn(outcome) ==
    /\ favFetch = "sent"
    /\ favFetch' = "done"
    /\ IF outcome = "thrown"
       THEN /\ favError' = "Error"
            /\ UNCHANGED favData
       ELSE /\ favData' = IF outcome = "ok" THEN MoviePage(1) ELSE Undefined
            /\ UNCHANGED favError
    /\ favIsLoading' = FALSE
    /\ alert' = NoAlert
    /\ UNCHANGED NotFavScreen

\* data.filter(movie => favoritesCtx.ids.includes(movie.id))
favoriteMovies_Unfiltered == favData

favoriteMovies == SelectSeq(favData, LAMBDA movie : Includes(favoriteMovieIds, movie))

\* what FavoritesScreen returns
FavoritesRender ==
    IF favIsLoading THEN "ActivityIndicator"
    ELSE IF favError # "null" THEN "Failed to fetch movies"
    ELSE IF favData = Undefined THEN "TypeError"
    ELSE IF Len(favoriteMovies) = 0 THEN "No favorite movies yet"
    ELSE "FlatList"

\* the rows of the FlatList
FavoritesShown == IF FavoritesRender = "FlatList" THEN favoriteMovies ELSE <<>>

\* ---------------------------------------------------------- MoviesScreen
NotMovies == <<quickNotes, cineProfileVars, favoritesCtxVars, favScreenVars, guessQuestVars, todoVars, ideaStormVars>>

\* one run of fetchMovies(page, shouldReplace), with the caller it came from
\* and what the awaited fetch / response.json() chain settled with
MovieFetch(page, shouldReplace, by) ==
    [page |-> page, shouldReplace |-> shouldReplace, by |-> by, outcome |-> "pending"]

\* what MoviesScreen returns
MoviesRender ==
    IF data = RenderThrew THEN "TypeError"
    ELSE IF isLoading THEN "ActivityIndicator"
    ELSE IF error # "null" THEN "Failed to fetch movies"
    ELSE "FlatList"

\* the rows of the FlatList, which has none for data={undefined}
MoviesShown == IF MoviesRender = "FlatList" /\ data # Undefined THEN data ELSE <<>>

\* useEffect(() => { fetchMovies(1, true); }, [])
MoviesMount ==
    /\ ~moviesMounted
    /\ moviesMounted' = TRUE
    /\ movieFetches' = Put(movieFetches, MovieFetch(1, TRUE, "mount"))
    /\ alert' = NoAlert
    /\ UNCHANGED <<isLoading, data, error, isRefreshing, currentPage>>
    /\ UNCHANGED NotMovies

\* handleRefresh up to the await inside fetchMovies: the list is pulled down
\* (the RefreshControl takes no pull while it shows refreshing)
handleRefresh ==
    /\ MoviesRender = "FlatList"
    /\ ~isRefreshing
    /\ InFlight(movieFetches) < MaxFetches
    /\ isRefreshing' = TRUE
    /\ movieFetches' = Put(movieFetches, MovieFetch(1, TRUE, "refresh"))
    /\ alert' = NoAlert
    /\ UNCHANGED <<isLoading, data, error, currentPage, moviesMounted>>
    /\ UNCHANGED NotMovies

\* loadMoreMovies up to the await inside fetchMovies: onEndReached fires
loadMoreMovies ==
    /\ MoviesRender = "FlatList"
    /\ currentPage <= MaxPage
    /\ InFlight(movieFetches) < MaxFetches
    /\ movieFetches' = Put(movieFetches, MovieFetch(currentPage + 1, FALSE, "loadMore"))
    /\ alert' = NoAlert
    /\ UNCHANGED <<isLoading, data, error, isRefreshing, currentPage, moviesMounted>>
    /\ UNCHANGED NotMovies

NewData_AlwaysAppends(f) == data \o MoviePage(f.page)

NewData_AlwaysReplaces(f) == MoviePage(f.page)

\* json.results of the body the run f received
Results(f) == IF f.outcome = "ok" THEN MoviePage(f.page) ELSE Undefined

\* if (shouldReplace) setData(json.results)
\* else setData(prevData => [...prevData, ...json.results])
\* (spreading undefined throws)
NewData(f) ==
    IF f.shouldReplace THEN Results(f)
    ELSE IF data = Undefined \/ data = RenderThrew \/ Results(f) = Undefined THEN RenderThrew
    ELSE data \o Results(f)

\* the request of a fetchMovies run is answered, or fails
MovieFetchSettles(f, outcome) ==
    /\ f.outcome = "pending"
    /\ movieFetches' = Swap(movieFetches, f, [f EXCEPT !.outcome = outcome])
    /\ alert' = NoAlert
    /\ UNCHANGED <<isLoading, data, error, isRefreshing, currentPage, moviesMounted>>
    /\ UNCHANGED NotMovies

\* fetchMovies after the await: try / catch / finally
MovieFetchReturn(f) ==
    /\ f.outcome # "pending"
    /\ IF f.outcome = "thrown"
       THEN /\ error' = "Error"
            /\ UNCHANGED <<data, currentPage>>
       ELSE /\ data' = NewData(f)
            /\ currentPage' = f.page
            /\ UNCHANGED error
    /\ isLoading' = FALSE
    /\ isRefreshing' = FALSE
    /\ movieFetches' = Take(movieFetches, f)
    /\ alert' = NoAlert
    /\ UNCHANGED moviesMounted
    /\ UNCHANGED NotMovies

\* ---------------------------------------------------------- FavoriteButton
\* const isFavorite = favoritesCtx.ids.includes(movieId)
isFavorite(movieId) == Includes(favoriteMovieIds, movieId)

toggleFavorite_AlwaysAdds(movieId) == addFavorite(movieId)

\* toggleFavorite of the button rendered for movieId
toggleFavorite(movieId) ==
    IF isFavorite(movieId) THEN removeFavorite(movieId) ELSE addFavorite(movieId)

\* a press on the star of a row of the movies list or of the favorites list
PressFavorite(movieId) ==
    /\ Includes(MoviesShown, movieId) \/ Includes(FavoritesShown, movieId)
    /\ toggleFavorite(movieId)
    /\ alert' = NoAlert
    /\ UNCHANGED NotFavoritesCtx

NextFavorites ==
    \/ FavoritesMount
    \/ \E o \in FetchOutcomes : FavoritesFetchReturn(o)
    \/ MoviesMount
    \/ \E f \in BagToSet(movieFetches), o \in FetchOutcomes : MovieFetchSettles(f, o)
    \/ \E f \in BagToSet(movieFetches) : MovieFetchReturn(f)
    \/ loadMoreMovies
    \/ \E id \in MovieIds : PressFavorite(id)

SpecFavorites == InitCine /\ [][NextFavorites]_vars

NextMovies ==
    \/ MoviesMount
    \/ handleRefresh
    \/ loadMoreMovies
    \/ \E f \in BagToSet(movieFetches), o \in FetchOutcomes : MovieFetchSettles(f, o)
    \/ \E f \in BagToSet(movieFetches) : MovieFetchReturn(f)

SpecMovies == InitCine /\ [][NextMovies]_vars

\* every request is answered or fails in the end
MoviesFairness ==
    /\ WF_vars(\E f \in BagToSet(movieFetches), o \in FetchOutcomes : MovieFetchSettles(f, o))
    /\ WF_vars(\E f \in BagToSet(movieFetches) : MovieFetchReturn(f))

FairMovies == SpecMovies /\ MoviesFairness

\* both screens with every answer the movies API can give
NextApiState ==
    \/ FavoritesMount
    \/ \E o \in ResponseOutcomes : FavoritesFetchReturn(o)
    \/ MoviesMount
    \/ handleRefresh
    \/ loadMoreMovies
    \/ \E f \in BagToSet(movieFetches), o \in ResponseOutcomes : MovieFetchSettles(f, o)
    \/ \E f \in BagToSet(movieFetches) : MovieFetchReturn(f)

SpecApiState == InitCine /\ [][NextApiState]_vars

\* ======================================================================
\* GuessQuest (week3)
\* ======================================================================
PlayerNames == {"", " ", "Ann"}
\* Math.floor(Math.random() * 100) + 1
TargetNumbers == {1, 50, 100}

NotGuessQuest == <<quickNotes, cineViewVars, todoVars, ideaStormVars>>

\* the focused route
Focused == navStack[Len(navStack)]

\* navigation.navigate(name, params) to a route that is not in the stack
Pushed(r) == Append(navStack, r)

\* navigation.goBack()
Popped == SubSeq(navStack, 1, Len(navStack) - 1)

\* the focused route with its screen's state changed
Refocused(r) == [navStack EXCEPT ![Len(navStack)] = r]

\* StartGameScreen: onChangeText={setPlayerName}
setPlayerName(text) ==
    /\ Focused.name = "StartGame"
    /\ navStack' = Refocused([Focused EXCEPT !.playerName = text])
    /\ alert' = NoAlert
    /\ UNCHANGED NotGuessQuest

\* playerName.trim() || 'Player'
NameParam(text) == IF Trim(text) = "" THEN "Player" ELSE Trim(text)

\* handleStartGame; the Game screen mounts and draws its target number
handleStartGame(target) ==
    /\ Focused.name = "StartGame"
    /\ navStack' = Pushed(RouteOf("Game", NameParam(Focused.playerName), target, 0, "undefined"))
    /\ alert' = NoAlert
    /\ UNCHANGED NotGuessQuest

\* `Not quite right! Try again. (${guessCount + 1}/3 guesses)`
GuessResult(n) ==
    CASE n = 1 -> "Not quite right! Try again. (1/3 guesses)"
      [] n = 2 -> "Not quite right! Try again. (2/3 guesses)"

\* if (guessCount >= 2)
GameIsOver(guessCount) == guessCount >= 2

\* makeGuess
makeGuess ==
    /\ Focused.name = "Game"
    /\ Focused.guessCount < MaxGuesses
    /\ LET counted == [Focused EXCEPT !.guessCount = Focused.guessCount + 1]
       IN IF GameIsOver(Focused.guessCount)
          THEN /\ navStack' = Append(Refocused(counted),
                                     RouteOf("GameOver", Focused.playerName,
                                             Focused.targetNumber,
                                             Focused.guessCount + 1, "undefined"))
               /\ alert' = NoAlert
          ELSE /\ navStack' = Refocused(counted)
               /\ alert' = GuessResult(Focused.guessCount + 1)
    /\ UNCHANGED NotGuessQuest

\* the Give Up button: navigate('GameOver', { ..., guessCount, gaveUp: true })
GiveUp ==
    /\ Focused.name = "Game"
    /\ navStack' = Pushed(RouteOf("GameOver", Focused.playerName, Focused.targetNumber,
                                  Focused.guessCount, "true"))
    /\ alert' = NoAlert
    /\ UNCHANGED NotGuessQuest

\* the back button of the header (Game: headerLeft calls navigation.goBack();
\* GameOver: the stack's own back button), the back gesture or hardware key
GoBack ==
    /\ Focused.name # "StartGame"
    /\ navStack' = Popped
    /\ alert' = NoAlert
    /\ UNCHANGED NotGuessQuest

\* handlePlayAgain: navigate('StartGame') goes back to the StartGame route
\* that is in the stack already
handlePlayAgain ==
    /\ Focused.name = "GameOver"
    /\ navStack' = SubSeq(navStack, 1, 1)
    /\ alert' = NoAlert
    /\ UNCHANGED NotGuessQuest

NextGuessQuest ==
    \/ \E text \in PlayerNames : setPlayerName(text)
    \/ \E target \in TargetNumbers : handleStartGame(target)
    \/ makeGuess
    \/ GiveUp
    \/ GoBack
    \/ handlePlayAgain

SpecGuessQuest == InitCine /\ [][NextGuessQuest]_vars

\* ======================================================================
\* Todo app (week1)
\* ======================================================================
TodoTexts == {"", " ", "x"}

NotTodo == <<quickNotes, cineViewVars, guessQuestVars, ideaStormVars>>

\* onChange={e => setNewTodoText(e.target.value)}
TypeTodoText(text) ==
    /\ newTodoText' = text
    /\ UNCHANGED <<todos, now>>
    /\ alert' = NoAlert
    /\ UNCHANGED NotTodo

\* handleAddTodo, run at clock time t: Date.now() is the new todo's id
handleAddTodo(t) ==
    /\ t >= now
    /\ now' = t
    /\ IF Trim(newTodoText) = ""
       THEN UNCHANGED <<todos, newTodoText>>
       ELSE /\ Len(todos) < MaxTodos
            /\ todos' = Append(todos, Todo(t, newTodoText, FALSE))
            /\ newTodoText' = ""
    /\ alert' = NoAlert
    /\ UNCHANGED NotTodo

\* todos.map(todo => todo.id === id ? { ...todo, completed: !todo.completed } : todo)
ToggledTodos(list, id) ==
    [k \in 1..Len(list) |->
        IF list[k].id = id THEN [list[k] EXCEPT !.completed = ~list[k].completed]
        ELSE list[k]]

\* handleToggleTodo(id)
handleToggleTodo(id) ==
    /\ todos' = ToggledTodos(todos, id)
    /\ UNCHANGED <<newTodoText, now>>
    /\ alert' = NoAlert
    /\ UNCHANGED NotTodo

\* TodoListItem: onClick={() => onToggle(item.id)} of the k-th row
ClickTodo(k) ==
    /\ k \in 1..Len(todos)
    /\ handleToggleTodo(todos[k].id)

NextTodo ==
    \/ \E text \in TodoTexts : TypeTodoText(text)
    \/ \E t \in 3..MaxNow : handleAddTodo(t)
    \/ \E k \in 1..MaxTodos : ClickTodo(k)

SpecTodo == InitCine /\ [][NextTodo]_vars

\* ======================================================================
\* IdeaStorm (week2)
\* ======================================================================
IdeaTitles == {"", " ", "a"}
IdeaDescriptions == {"", "d"}

NotIdeaStorm == <<quickNotes, cineViewVars, guessQuestVars, todoVars>>

\* new Date().toLocaleDateString(): the last millisecond of the clock is on the
\* next day
LocaleDate(t) == IF t = MaxIdeaClock THEN "1/2/2025" ELSE "1/1/2025"

\* onChangeText={setNewTitle}
setNewTitle(text) ==
    /\ ideaDialog = NoDialog
    /\ newTitle' = text
    /\ UNCHANGED <<ideaStormBuild, ideas, newDescription, ideaDialog, ideaClock>>
    /\ alert' = NoAlert
    /\ UNCHANGED NotIdeaStorm

\* onChangeText={setNewDescription}
setNewDescription(text) ==
    /\ ideaDialog = NoDialog
    /\ newDescription' = text
    /\ UNCHANGED <<ideaStormBuild, ideas, newTitle, ideaDialog, ideaClock>>
    /\ alert' = NoAlert
    /\ UNCHANGED NotIdeaStorm

\* the newIdea object literal, built at clock time t
NewIdea(t) ==
    [id |-> ToString(t), title |-> newTitle, description |-> newDescription,
     date |-> LocaleDate(t)]

IdeasWith_AtEnd(list, idea) == Append(list, idea)

\* [newIdea, ...ideas]
IdeasWith(list, idea) == <<idea>> \o list

\* addIdea, run at clock time t
addIdea(t) ==
    /\ ideaDialog = NoDialog
    /\ t >= ideaClock
    /\ ideaClock' = t
    /\ IF Trim(newTitle) = ""
       THEN /\ alert' = IF ideaStormBuild = "final" THEN "Please enter an idea title"
                        ELSE NoAlert
            /\ UNCHANGED <<ideas, newTitle, newDescription>>
       ELSE /\ Len(ideas) < MaxIdeas
            /\ ideas' = IdeasWith(ideas, NewIdea(t))
            /\ newTitle' = ""
            /\ newDescription' = ""
            /\ alert' = NoAlert
    /\ UNCHANGED <<ideaStormBuild, ideaDialog>>
    /\ UNCHANGED NotIdeaStorm

\* deleteIdea(id) of the k-th card: the alert opens, its Delete handler closes
\* over this render's ideas
deleteIdea(k) ==
    /\ ideaDialog = NoDialog
    /\ k \in 1..Len(ideas)
    /\ ideaDialog' = [id |-> ideas[k].id, ideas |-> ideas]
    /\ alert' = "Delete Idea"
    /\ UNCHANGED <<ideaStormBuild, ideas, newTitle, newDescription, ideaClock>>
    /\ UNCHANGED NotIdeaStorm

\* { text: 'Cancel', style: 'cancel' }
CancelDeleteIdea ==
    /\ ideaDialog # NoDialog
    /\ ideaDialog' = NoDialog
    /\ alert' = NoAlert
    /\ UNCHANGED <<ideaStormBuild, ideas, newTitle, newDescription, ideaClock>>
    /\ UNCHANGED NotIdeaStorm

\* ideas.filter(idea => idea.id !== id)
IdeasWithout(list, id) == SelectSeq(list, LAMBDA idea : idea.id # id)

\* { text: 'Delete', onPress: () => setIdeas(ideas.filter(...)) }
ConfirmDeleteIdea ==
    /\ ideaDialog # NoDialog
    /\ ideas' = IdeasWithout(ideaDialog.ideas, ideaDialog.id)
    /\ ideaDialog' = NoDialog
    /\ alert' = NoAlert
    /\ UNCHANGED <<ideaStormBuild, newTitle, newDescription, ideaClock>>
    /\ UNCHANGED NotIdeaStorm

NextIdeaStorm ==
    \/ \E text \in IdeaTitles : setNewTitle(text)
    \/ \E text \in IdeaDescriptions : setNewDescription(text)
    \/ \E t \in 1..MaxIdeaClock : addIdea(t)
    \/ \E k \in 1..MaxIdeas : deleteIdea(k)
    \/ CancelDeleteIdea
    \/ ConfirmDeleteIdea

InitIdeaStorm ==
    /\ InitScreens
    /\ ClientCreated("active")
    /\ provSession = NoSession
    /\ ideaStormBuild \in IdeaStormBuilds

SpecIdeaStorm == InitIdeaStorm /\ [][NextIdeaStorm]_vars

\* ======================================================================
\* Claims
\* ======================================================================

\* C1 (as claimed): whenever TabLayout renders the Tabs, the context holds a
\* session and loading is false.
C1_TabsOnlyWithSession ==
    TabLayoutRender = "Tabs" => (session # NoSession /\ ~loading)

\* the step that navigates to '/login' and the step that navigates to the tabs
GoesToLogin == route = "tabs" /\ route' = "login"
GoesToTabs == route = "login" /\ route' = "tabs"

\* C2: once signOut has succeeded the user ends up on the login screen, and
\* the only step that navigates there is the tab layout's effect, taken when
\* the context session is null (handleLogout itself never navigates).
C2_LogoutLeadsToLogin ==
    /\ (logoutCall.kind = "signOut" /\ logoutCall.stage = "ok") ~> (route = "login")
    /\ [][GoesToLogin => (tabEffect /\ ~loading /\ session = NoSession)]_vars

C2_Witness ==
    /\ logoutCall.kind = "signOut" /\ logoutCall.stage = "ok"
    /\ route = "tabs" /\ session = NoSession /\ tabEffect

\* C3: while loading is true the tab layout renders nothing and no step
\* redirects; with loading false and no session the layout ends up redirected
\* to '/login'; a redirect to '/login' is never made while a session exists.
C3_Startup ==
    /\ [](loading => TabLayoutRender = "null")
    /\ [][GoesToLogin => (~loading /\ session = NoSession)]_vars
    /\ (route = "tabs" /\ ~loading /\ session = NoSession) ~> (route = "login")

C3_Witness ==
    /\ route = "login" /\ ~loading /\ session = NoSession
    /\ getSessionCalls = 1 /\ loginCall = NoCall /\ pushes = 0

InitialFetchDelivered == getSessionPending /\ ~getSessionPending'
NotificationDelivered == authEvents # <<>> /\ authEvents' = Tail(authEvents)

\* C5: getSession is called exactly once, at mount; the step that settles it
\* applies the provider's session, every notification is applied in arrival
\* order, each of them clears loading, and nothing else changes the context:
\* so the context session is always the value delivered last.
C5_SessionMirror ==
    /\ [](getSessionCalls = (IF mounted THEN 1 ELSE 0))
    /\ [][InitialFetchDelivered => (session' = provSession /\ ~loading')]_vars
    /\ [][NotificationDelivered => (session' = Head(authEvents) /\ ~loading')]_vars
    /\ [][(session' # session \/ loading' # loading)
            => (InitialFetchDelivered \/ NotificationDelivered)]_vars

\* a notification was applied while the initial fetch is still unsettled
C5_Witness ==
    /\ getSessionPending /\ ~loading /\ session # NoSession
    /\ provSession # session

\* request r leaves the bag because its handler ran on (not because its
\* screen went away)
Settles(r) == CopiesIn(r, reqs') < CopiesIn(r, reqs) /\ route' = route /\ r.stage # "sent"

Fails(r) == Settles(r) /\ r.stage = "error"

C7_OptimisticDelete ==
    \A r \in BagToSet(reqs) :
        (r.kind = "delete" /\ r.live /\ r.stage = "sent") => r.id \notin Ids(notes)

\* C8 (as claimed): with a session, the re-fetch effect run and no fetch in
\* flight, every displayed note is owned by the session's user.
NoFetchInFlight == \A r \in BagToSet(reqs) : r.kind # "fetch"
C8_OnlyOwnNotes ==
    (TabsShown /\ Idle /\ session # NoSession /\ NoFetchInFlight)
        => \A k \in 1..Len(notes) : notes[k].owner = session

\* C9 (as claimed): a successful insert clears both inputs, closes the modal
\* and sends the re-fetch, whose successful result shows the new note; a
\* failed insert shows the alert, leaves modal and inputs alone and sends
\* nothing.
InsertOk(r) ==
    /\ newNoteTitle' = ""
    /\ newNoteContent' = ""
    /\ ~modalVisible'
    /\ alert' = NoAlert
    /\ reqs' = Put(Take(reqs, r), FetchReq(r.user, TRUE, r.id))
InsertFailed(r) ==
    /\ alert' = "Error saving note"
    /\ UNCHANGED <<modalVisible, newNoteTitle, newNoteContent>>
    /\ reqs' = Take(reqs, r)
C9_AddNote ==
    [][\A r \in BagToSet(reqs) :
          (Settles(r) /\ r.live) =>
            /\ (r.kind = "insert" /\ r.stage = "ok") => InsertOk(r)
            /\ (r.kind = "insert" /\ r.stage = "error") => InsertFailed(r)
            /\ (r.kind = "fetch" /\ r.stage = "ok" /\ r.id # 0) => r.id \in Ids(notes')]_vars

\* C9 (amended): as claimed, except that the re-fetch shows the new note
\* unless the note has meanwhile been deleted from the backend.
C9_AddNoteAmended ==
    [][\A r \in BagToSet(reqs) :
          (Settles(r) /\ r.live) =>
            /\ (r.kind = "insert" /\ r.stage = "ok") => InsertOk(r)
            /\ (r.kind = "insert" /\ r.stage = "error") => InsertFailed(r)
            /\ (r.kind = "fetch" /\ r.stage = "ok" /\ r.id # 0)
                  => (r.id \in Ids(notes') \/ r.id \notin {x.id : x \in db})]_vars

\* the re-fetch of a saved note has come back with the note in it
C9_Witness ==
    /\ \E r \in BagToSet(reqs) :
          /\ r.kind = "fetch" /\ r.id # 0 /\ r.stage = "ok" /\ r.live
          /\ r.id \in Ids(r.data)
    /\ newNoteTitle = "" /\ newNoteContent = "" /\ ~modalVisible

\* C10 (as claimed): a delete request is sent only from the 'Delete Note'
\* prompt, by the user's choice of 'Delete'.
DeletesInFlight(rs) == {r \in BagToSet(rs) : r.kind = "delete"}
C10_DeleteOnlyAfterPrompt ==
    [][(DeletesInFlight(reqs') \ DeletesInFlight(reqs) # {}) => alert = "Delete Note"]_vars

\* a run of pickImage / getLocation resumes after its permission request in
\* this step
ResumesAfterPermission(c) ==
    /\ c.at = "permission" /\ c.settled # "pending"
    /\ CopiesIn(c, deviceCalls') < CopiesIn(c, deviceCalls)

\* how many runs stand at the protected call
NumAtApi(calls) ==
    BagCardinality([c \in {x \in BagToSet(calls) : x.at = "api"} |-> calls[c]])

\* C11: a run of pickImage / getLocation reaches the protected call only in
\* the step that resumes it after its own permission request settled with
\* 'granted'; a run whose request settled with anything else shows the
\* 'Permission Required' alert, ends without the protected call, and the
\* stored image and location stay as they are.
C11_PermissionFlow ==
    /\ [][\A c \in BagToSet(deviceCalls) :
            (ResumesAfterPermission(c) /\ c.settled # "granted") =>
                /\ alert' = "Permission Required"
                /\ deviceCalls' = Take(deviceCalls, c)
                /\ image' = image /\ location' = location]_vars
    /\ [][NumAtApi(deviceCalls') > NumAtApi(deviceCalls) =>
            \E c \in BagToSet(deviceCalls) :
                /\ ResumesAfterPermission(c) /\ c.settled = "granted"
                /\ deviceCalls' = Swap(deviceCalls, c, DeviceCallAtApi(c))]_vars

\* an undetermined permission has just been refused while an image and a
\* location are stored
C11_Witness ==
    /\ alert = "Permission Required"
    /\ locationPermission = "undetermined"
    /\ image # "null" /\ location # "null"

\* the movies of a fetched list that are favorites, in the order fetched
RECURSIVE FavoritesAmong(_)
FavoritesAmong(fetched) ==
    IF fetched = <<>> THEN <<>>
    ELSE IF \E k \in 1..Len(favoriteMovieIds) : favoriteMovieIds[k] = Head(fetched)
         THEN <<Head(fetched)>> \o FavoritesAmong(Tail(fetched))
         ELSE FavoritesAmong(Tail(fetched))

Pressed(ids, id) == IF Includes(ids, id) THEN IdsWithout(ids, id) ELSE IdsWith(ids, id)

\* C13: a step that changes the favorites flips the favorite status of
\* exactly one movie id (adds it if it was absent, removes it if present) and
\* leaves the status of every other id alone; hence a second press on the same
\* movie restores its status.
C13_Toggle ==
    /\ [][favoriteMovieIds' # favoriteMovieIds =>
            \E id \in MovieIds :
                /\ favoriteMovieIds' = Pressed(favoriteMovieIds, id)
                /\ Includes(favoriteMovieIds', id) = ~Includes(favoriteMovieIds, id)
                /\ \A other \in MovieIds \ {id} :
                      Includes(favoriteMovieIds', other) = Includes(favoriteMovieIds, other)]_vars
    /\ [](\A id \in MovieIds, other \in MovieIds :
            Includes(Pressed(Pressed(favoriteMovieIds, id), id), other)
                = Includes(favoriteMovieIds, other))

\* movies 3 and 1 were marked, in that order
C13_Witness ==
    /\ favoriteMovieIds = <<3, 1>>
    /\ FavoritesShown = <<1>>

\* the run f of fetchMovies resumes after its await in this step
FetchResumes(f) ==
    /\ f.outcome # "pending"
    /\ CopiesIn(f, movieFetches') < CopiesIn(f, movieFetches)

\* the runs of fetchMovies started in this step
FetchesStarted ==
    {f \in BagToSet(movieFetches' (-) movieFetches) : f.outcome = "pending"}

\* C14: handleRefresh sets isRefreshing and requests page 1 with replacement;
\* when that request succeeds the list becomes page 1's results and
\* currentPage becomes 1, when it fails list and currentPage stay; either way
\* isRefreshing is false afterwards, so a refresh always comes to its end.
C14_PullToRefresh ==
    /\ [][(~isRefreshing /\ isRefreshing') =>
            FetchesStarted = {[page |-> 1, shouldReplace |-> TRUE, by |-> "refresh",
                               outcome |-> "pending"]}]_vars
    /\ [][\A f \in BagToSet(movieFetches) :
            (FetchResumes(f) /\ f.by = "refresh") =>
                /\ ~isRefreshing'
                /\ f.outcome = "ok" => (data' = MoviePage(1) /\ currentPage' = 1)
                /\ f.outcome = "thrown" => (data' = data /\ currentPage' = currentPage)]_vars
    /\ isRefreshing ~> ~isRefreshing

\* a refresh has replaced a list that had grown by a second page
C14_Witness ==
    /\ data = MoviePage(1) /\ currentPage = 1 /\ ~isRefreshing
    /\ \E f \in BagToSet(movieFetches) : f.by = "loadMore" /\ f.page = 3

C16_GameEndsAfterThree ==
    \A k \in 1..Len(navStack) :
        /\ navStack[k].name = "Game" => navStack[k].guessCount <= 3
        /\ navStack[k].name = "GameOver" =>
              /\ navStack[k].guessCount <= 3
              /\ navStack[k].gaveUp = "undefined" => navStack[k].guessCount = 3
              /\ navStack[k].playerName = navStack[k - 1].playerName
              /\ navStack[k].targetNumber = navStack[k - 1].targetNumber

\* the auth call c has failed and its handler runs on in this step; cAfter is
\* the call after the step
FailedCallReturns(c, cAfter) ==
    /\ c.kind # "none" /\ c.stage \in {"error", "thrown"}
    /\ cAfter = NoCall

\* the provider reports the failure of call c in this step
CallFails(c, cAfter) ==
    /\ c.kind # "none" /\ c.stage = "sent"
    /\ cAfter.kind = c.kind /\ cAfter.stage \in {"error", "thrown"}

\* the alert of a failed call: the error's message, or the catch block's text
FailureAlert(c) ==
    CASE c.stage = "thrown" -> "An unexpected error occurred"
      [] c.kind = "signIn" -> "Login Error"
      [] c.kind = "signUp" -> "Signup Error"
      [] c.kind = "signOut" -> "Logout Error"

\* neither the provider's session, nor the context's, nor the route changes
NoSessionEffect == UNCHANGED <<provSession, authEvents, session, loading, route>>

\* C17: a failing signInWithPassword, signUp or signOut changes no session;
\* its handler then shows one alert (the error's message, or 'An unexpected
\* error occurred' for an exception), sends nothing again, navigates nowhere
\* and leaves the context session alone.
C17_AuthCallErrors ==
    /\ [][(CallFails(loginCall, loginCall') \/ CallFails(logoutCall, logoutCall'))
            => (NoSessionEffect /\ alert' = NoAlert)]_vars
    /\ [][FailedCallReturns(loginCall, loginCall')
            => (NoSessionEffect /\ alert' = FailureAlert(loginCall)
                /\ UNCHANGED logoutCall)]_vars
    /\ [][FailedCallReturns(logoutCall, logoutCall')
            => (NoSessionEffect /\ alert' = FailureAlert(logoutCall)
                /\ UNCHANGED loginCall)]_vars

\* a signOut that failed has been reported, the user still being signed in
C17_Witness ==
    /\ alert = "Logout Error"
    /\ route = "tabs" /\ session # NoSession
    /\ logoutCall = NoCall /\ loginCall = NoCall /\ ~logoutLoading
    /\ authEvents = <<>> /\ provSession = session

TodoToggled == todos' # todos /\ Len(todos') = Len(todos) /\ newTodoText' = newTodoText

\* C19 (as claimed): a toggle flips the completed flag of exactly one todo and
\* leaves every other todo, the length and the order of the list as they
\* are; toggling twice restores the list; toggling an absent id changes
\* nothing.
C19_ToggleTodo ==
    /\ [][TodoToggled =>
            \E k \in 1..Len(todos) :
                /\ todos'[k] = [todos[k] EXCEPT !.completed = ~todos[k].completed]
                /\ \A j \in 1..Len(todos) \ {k} : todos'[j] = todos[j]]_vars
    /\ [](\A id \in 1..MaxNow :
            /\ ToggledTodos(ToggledTodos(todos, id), id) = todos
            /\ (\A k \in 1..Len(todos) : todos[k].id # id) => ToggledTodos(todos, id) = todos)

\* the Add button is pressed
AddPressed == \E t \in 1..MaxIdeaClock : addIdea(t)

\* C20: addIdea with an empty or whitespace-only title adds no idea and leaves
\* the list and both input fields as they are; otherwise exactly one new idea
\* with the entered title and description is put at the top of the list, the
\* existing ideas keep their order, and both input fields are cleared.
C20_AddIdea ==
    /\ [][AddPressed /\ Trim(newTitle) = "" =>
            UNCHANGED <<ideas, newTitle, newDescription>>]_vars
    /\ [][AddPressed /\ Trim(newTitle) # "" =>
            /\ Len(ideas') = Len(ideas) + 1
            /\ ideas'[1].title = newTitle
            /\ ideas'[1].description = newDescription
            /\ Tail(ideas') = ideas
            /\ newTitle' = ""
            /\ newDescription' = ""]_vars
    /\ [][Len(ideas') > Len(ideas) => AddPressed /\ Trim(newTitle) # ""]_vars

\* a second idea was added above the first, and Add was then pressed without
\* a title
C20_Witness ==
    /\ Len(ideas) >= 2
    /\ ideas[1].description # ideas[2].description
    /\ ideas[1].id # ideas[2].id
    /\ Trim(newTitle) = ""
    /\ newTitle # ""
    /\ alert = "Please enter an idea title"

\* the handler of call c sends its request / runs to its end
CallSent(c, d) == c = NoCall /\ d # NoCall
HandlerEnds(c, d) == c # NoCall /\ d = NoCall

\* C21: a login, sign-up or logout attempt that sends its request has set
\* the screen's loading flag; the flag is true only while the handler is
\* still running, is false when the handler ends, whatever the outcome, and
\* becomes false again once the request has settled.
C21_LoadingFlag ==
    /\ [][CallSent(loginCall, loginCall') => loginLoading']_vars
    /\ [][CallSent(logoutCall, logoutCall') => logoutLoading']_vars
    /\ [][HandlerEnds(loginCall, loginCall') => ~loginLoading']_vars
    /\ [][HandlerEnds(logoutCall, logoutCall') => ~logoutLoading']_vars
    /\ [](loginLoading => loginCall # NoCall /\ loginCall.live)
    /\ [](logoutLoading => logoutCall # NoCall /\ logoutCall.live)
    /\ (loginLoading /\ loginCall.stage # "sent") ~> ~loginLoading
    /\ (logoutLoading /\ logoutCall.stage # "sent") ~> ~logoutLoading

\* a sign-in that threw has been reported on the login screen it started on
C21_Witness ==
    /\ alert = "An unexpected error occurred"
    /\ route = "login" /\ session = NoSession
    /\ loginCall = NoCall /\ ~loginLoading

\* Login or Sign Up is pressed with an empty email or an empty password
PressedIncomplete ==
    \E e \in Emails, p \in Passwords :
        /\ e = "" \/ p = ""
        /\ handleLogin(e, p) \/ handleSignUp(e, p)

\* C22: handleLogin and handleSignUp with an empty email or an empty password
\* show the 'Please enter both email and password' alert, send no auth
\* request, and leave loading false and the session as it is; the alert is
\* shown by no other step.
C22_LoginValidation ==
    /\ [][PressedIncomplete =>
            /\ alert' = "Please enter both email and password"
            /\ loginCall' = NoCall /\ logoutCall' = logoutCall /\ reqs' = reqs
            /\ ~loginLoading'
            /\ UNCHANGED <<provSession, authEvents, session, loading, route>>]_vars
    /\ [][alert' = "Please enter both email and password" =>
            UNCHANGED <<authVars, navVars, loginVars, profileVars, notesVars, reqs>>]_vars
    /\ [](alert = "Please enter both email and password" => loginCall = NoCall)

\* the alert is on the login screen of a signed-out user, nothing being sent
C22_Witness ==
    /\ alert = "Please enter both email and password"
    /\ route = "login" /\ session = NoSession /\ ~loading
    /\ loginCall = NoCall /\ ~loginLoading

\* the run of fetchMovies started by the mount effect has finished
InitialFetchDone == moviesMounted /\ \A f \in BagToSet(movieFetches) : f.by # "mount"

\* C23 (as claimed): both screens start with isLoading true, data empty and
\* error null; after the initial fetch isLoading is false; error is set only
\* by a fetch that threw, and by every fetch that threw; and each screen shows
\* the spinner while loading, else the error message if error is set, else
\* the list - always one of the three.
C23_ApiState ==
    /\ [](favFetch = "idle" => favIsLoading /\ favData = <<>> /\ favError = "null")
    /\ [](~moviesMounted => isLoading /\ data = <<>> /\ error = "null")
    /\ [](favFetch = "done" => ~favIsLoading)
    /\ [](InitialFetchDone => ~isLoading)
    /\ [][\A f \in BagToSet(movieFetches) :
            FetchResumes(f) => IF f.outcome = "thrown" THEN error' # "null"
                               ELSE error' = error]_vars
    /\ [][error' # error => \E f \in BagToSet(movieFetches) :
                                FetchResumes(f) /\ f.outcome = "thrown"]_vars
    /\ [](FavoritesRender =
            IF favIsLoading THEN "ActivityIndicator"
            ELSE IF favError # "null" THEN "Failed to fetch movies"
            ELSE IF FavoritesShown = <<>> THEN "No favorite movies yet" ELSE "FlatList")
    /\ [](MoviesRender =
            IF isLoading THEN "ActivityIndicator"
            ELSE IF error # "null" THEN "Failed to fetch movies" ELSE "FlatList")

\* the ids of the rows the backend holds; ids are never given twice, so a note
\* that is missing there is one whose delete request succeeded
StoredIds == {x.id : x \in db}

\* C24 (as claimed): with every request settled and handled, the displayed
\* list holds no note whose delete succeeded on the backend.
C24_ConcurrentDeletes ==
    (TabsShown /\ Idle /\ reqs = EmptyBag) => Ids(notes) \subseteq StoredIds

\* the results of pages 1..n, one behind the other
RECURSIVE PagesUpTo(_)
PagesUpTo(n) == IF n = 0 THEN <<>> ELSE PagesUpTo(n - 1) \o MoviePage(n)

\* C25 (as claimed): whenever the first load is over, no run of fetchMovies
\* is in flight and none has failed, the list is the results of pages
\* 1..currentPage in order, each page once.
C25_Pagination ==
    (moviesMounted /\ ~isLoading /\ movieFetches = EmptyBag /\ error = "null")
        => data = PagesUpTo(currentPage)

\* C26: loading is true until the provider has mounted; it becomes false in
\* the step that delivers the initial session or a session-change
\* notification, in no other step, and once false it is never true again,
\* whatever session changes follow.
C26_LoadingMonotone ==
    /\ [](~mounted => loading)
    /\ [][~loading => ~loading']_vars
    /\ [][(loading /\ ~loading') => (InitialFetchDelivered \/ NotificationDelivered)]_vars
    /\ [][(loading /\ (InitialFetchDelivered \/ NotificationDelivered)) => ~loading']_vars

\* the provider's own session change was delivered after the initial session
C26_Witness ==
    /\ ~loading /\ mounted /\ ~getSessionPending
    /\ pushes = MaxPush /\ authEvents = <<>>
    /\ session = provSession /\ session # NoSession

\* C27 (as claimed): once the provider has mounted, loading becomes false in
\* the end, also when getSession fails, and the tab layout ends up showing
\* the tabs or gone to '/login'.
C27_LoadingEnds ==
    /\ mounted ~> ~loading
    /\ mounted ~> (TabLayoutRender = "Tabs" \/ route = "login")

====
